---- MODULE Spec2Model ----
(***************************************************************************)
(* distance-tracker (location-demo/distance-tracker/src/main.rs).          *)
(*                                                                         *)
(* Two tokio tasks share one Mutex-protected HashMap (pmap):               *)
(*   - the ingest loop of main(): receive a sample, decode it as a         *)
(*     VehicleInfo, lock the table and insert the report under its id;     *)
(*   - the spawned evaluator task: lock and swap the table for an empty    *)
(*     one, walk every pair of the detached map, publish alerts, lock      *)
(*     again, copy the shared table's entries into the detached map and    *)
(*     install it, sleep.                                                  *)
(* Each action is one stretch of code between two await points (a lock     *)
(* acquisition, a put, a receive, the sleep); the stretch in which a task  *)
(* holds the lock is an action of its own, so that states in which the     *)
(* lock is held exist.                                                     *)
(*                                                                         *)
(* Abstractions.  A VehicleInfo is its id and position (speed, color and   *)
(* kind are carried along by the code and never read).  Positions lie on   *)
(* the great circle made of the meridians lng = 0 and lng = 180 degrees,   *)
(* and angles are counted in metres of arc, that is in units of            *)
(* 180 / (pi * 6371000) degrees: on that circle the haversine formula      *)
(* reduces to EARTH_RADIUS times the angle between the two points, which   *)
(* is what distance_haverside computes here, in whole metres.  f32         *)
(* rounding is not modelled.                                               *)
(* The iteration order of a HashMap is arbitrary and the same              *)
(* for every iteration of an unmodified map: it is chosen when the map is  *)
(* detached.                                                               *)
(***************************************************************************)
EXTENDS Integers, Sequences, FiniteSets, TLC

(* ---------------------------------------------------------------- bounds *)

\* Number of entity ids that reports are drawn from.
NumIds == 3
\* Number of well-formed reports the subscription delivers at most.
MaxMsgs == 3

(* ------------------------------------------------------------- constants *)

\* parse_args: --min-distance and --max-distance, at their defaults (metres).
min_distance == 10
max_distance == 1000
\* MIN_DISTANCE_SCALE = 1.5 and MAX_DISTANCE_SCALE = 0.75, in hundredths.
MIN_DISTANCE_SCALE == 150
MAX_DISTANCE_SCALE == 75
ScaleUnit == 100

IdNames == <<"A", "B", "C", "D", "E">>
Ids == {IdNames[k] : k \in 1..NumIds}

\* Latitudes (metres of arc) of the reports the ingest loop is fed.
MsgLats == {0, 50000}
\* Latitudes of the tables a single tick is run on: the pairwise distances
\* are 0, 10, 15, 25, 750, 765, 775, 49225, 49975, 49990 and 50000.
TickLats == {0, 10, 25, 775, 50000}

\* 180 degrees in metres of arc: pi * EARTH_RADIUS * 1000, rounded.
HalfTurn == 20015087

Position(lat) == [lat |-> lat, lng |-> 0]
PositionAt(lat, lng) == [lat |-> lat, lng |-> lng]
VehicleInfo(id, position) == [id |-> id, position |-> position]

\* Positions of the tables a single tick is run on: the latitudes of
\* TickLats on the meridian 0, and the point of the equator opposite to it.
TickPositions ==
    {Position(l) : l \in TickLats} \cup {PositionAt(0, HalfTurn)}

AlertKinds == {"AlertMin", "DangerMin", "AlertMax", "DangerMax"}

\* A payload is a JSON object; has_id / has_position tell whether the
\* field is present in it (the value is then irrelevant).
Payload(hi, id, hp, lat) ==
    [has_id |-> hi, id |-> id, has_position |-> hp, position |-> Position(lat)]
WellFormedPayloads == {Payload(TRUE, i, TRUE, l) : i \in Ids, l \in MsgLats}
MalformedPayloads ==
    {Payload(FALSE, IdNames[1], TRUE, 0), Payload(TRUE, IdNames[1], FALSE, 0)}
Payloads == WellFormedPayloads \cup MalformedPayloads

VARIABLES
    pmap,       \* the shared table, id -> VehicleInfo (a function on its keys)
    lock,       \* owner of the Mutex: "free", "ingest" or "eval"
    map,        \* the evaluator's detached map
    order,      \* iteration order of map: a sequence of its keys
    n,          \* the evaluator's n (number of outer elements taken)
    oi,         \* index in order of the inner loop's current element
    epc,        \* where the evaluator task is
    ipc,        \* where the ingest loop is
    sample,     \* the ingest loop's current sample: <<>> or <<payload>>
    alive,      \* FALSE once main has returned
    published,  \* alerts put on pkey in the current tick, in order
    pairs,      \* history: pairs whose distance the current tick computed
    latest,     \* history: id -> the last report inserted for it
    window,     \* history: id -> the last report inserted while the table
                \* was detached in the current or the last tick
    received,   \* history: number of well-formed samples received
    dropped     \* history: TRUE once a sample has failed to decode

vars == <<pmap, lock, map, order, n, oi, epc, ipc, sample, alive,
          published, pairs, latest, window, received, dropped>>

(* ------------------------------------------------------------- functions *)

Abs(x) == IF x < 0 THEN -x ELSE x

EmptyMap == [k \in {} |-> 0]

\* Insert as it would be with entry(key).or_insert(value): an entry that
\* exists is kept.
InsertKeepsOld(m, key, value) ==
    [k \in DOMAIN m \cup {key} |-> IF k \in DOMAIN m THEN m[k] ELSE value]

\* HashMap::insert: the entry at key is created or replaced as a whole.
Insert(m, key, value) ==
    [k \in DOMAIN m \cup {key} |-> IF k = key THEN value ELSE m[k]]

\* distance_haverside as it would be with the sine of delta_lat / 2 not
\* squared: the sign of delta_lat gets into the result.
distance_haverside_signed(self, other) ==
    LET delta_lat == other.lat - self.lat
        delta_lng == other.lng - self.lng
    IN  IF delta_lng = 0
        THEN delta_lat
        ELSE HalfTurn - Abs(self.lat + other.lat)

\* Position::distance_haverside, for two positions with delta_lng = 0 or
\* |delta_lng| = 180 degrees.  With delta_lng = 0 the inner term is
\* sin^2(delta_lat / 2) and the central angle |delta_lat|.  With
\* |delta_lng| = 180 degrees sin^2(delta_lng / 2) = 1, the inner term is
\* sin^2(delta_lat / 2) + cos(c_lat) * cos(o_lat) = cos^2((c_lat + o_lat) / 2)
\* and the central angle pi - |c_lat + o_lat|.  The result is
\* EARTH_RADIUS * central_angle * 1000, the central angle in metres of arc.
distance_haverside(self, other) ==
    LET delta_lat == other.lat - self.lat
        delta_lng == other.lng - self.lng
    IN  IF delta_lng = 0
        THEN Abs(delta_lat)
        ELSE HalfTurn - Abs(self.lat + other.lat)

\* serde_json::from_slice::<VehicleInfo>: every field is required.
DecodeOk(payload) == payload.has_id /\ payload.has_position
Decoded(payload) == [id |-> payload.id, position |-> payload.position]

\* The iteration orders a HashMap with key set S may have.
Orders(S) ==
    {s \in [1..Cardinality(S) -> S] :
        \A i, j \in 1..Cardinality(S) : i # j => s[i] # s[j]}

\* The threshold of the second tier of a band, times ScaleUnit.
MinAlertScaled == min_distance * MIN_DISTANCE_SCALE
MaxAlertScaled == max_distance * MAX_DISTANCE_SCALE

\* MaxBandKind as it would be with >= for > in both comparisons.
MaxBandKindInclusive(distance) ==
    IF distance >= max_distance THEN <<"DangerMin">>
    ELSE IF distance * ScaleUnit >= MaxAlertScaled THEN <<"DangerMax">>
    ELSE <<>>

\* MaxBandKind as it would be with the comparisons turned round.
MaxBandKindBelow(distance) ==
    IF distance < max_distance THEN <<"DangerMin">>
    ELSE IF distance * ScaleUnit < MaxAlertScaled THEN <<"DangerMax">>
    ELSE <<>>

\* MinBandKind as it would be with < for <= in both comparisons.
MinBandKindStrict(distance) ==
    IF distance < min_distance THEN <<"DangerMin">>
    ELSE IF distance * ScaleUnit < MinAlertScaled THEN <<"AlertMin">>
    ELSE <<>>

\* Lines 82-92: the kind of the alert of the minimum band, <<>> if none.
MinBandKind(distance) ==
    IF distance <= min_distance THEN <<"DangerMin">>
    ELSE IF distance * ScaleUnit <= MinAlertScaled THEN <<"AlertMin">>
    ELSE <<>>

\* Lines 93-105: the kind of the alert of the maximum band, <<>> if none.
MaxBandKind(distance) ==
    IF distance > max_distance THEN <<"DangerMin">>
    ELSE IF distance * ScaleUnit > MaxAlertScaled THEN <<"DangerMax">>
    ELSE <<>>

DistanceAlert(ida, idb, distance, kind) ==
    [ida |-> ida, idb |-> idb, distance |-> distance, kind |-> kind]

\* The pair the nested loops are at, and its distance (line 80).
cid == order[n]
oid == order[oi]

\* PairDistance as it would be if the pass read the positions from the
\* shared table where it has the id.
LivePosition(id) ==
    IF id \in DOMAIN pmap THEN pmap[id].position ELSE map[id].position
PairDistanceLive == distance_haverside(LivePosition(cid), LivePosition(oid))

PairDistance == distance_haverside(map[cid].position, map[oid].position)

\* Merged as it would be if the detached map's entries were copied into
\* the shared table instead: an id in both keeps the snapshot's report.
MergedSnapshotWins(snapshot, cmap) ==
    [k \in DOMAIN snapshot \cup DOMAIN cmap |->
        IF k \in DOMAIN snapshot THEN snapshot[k] ELSE cmap[k]]

\* Lines 111-113: every entry of cmap is inserted into the detached map.
Merged(snapshot, cmap) ==
    [k \in DOMAIN snapshot \cup DOMAIN cmap |->
        IF k \in DOMAIN cmap THEN cmap[k] ELSE snapshot[k]]

\* Where the evaluator is while it owns a detached map.
Detached == {"outer", "inner", "minband", "maxband", "merge_wait", "merge"}

\* A history with report vi noted as the last one of its id.
Noted(h, vi) ==
    [k \in DOMAIN h \cup {vi.id} |-> IF k = vi.id THEN vi ELSE h[k]]

\* The tables with keys among Ids and positions among positions.
Tables(positions) ==
    UNION {{[k \in K |-> VehicleInfo(k, f[k])] : f \in [K -> positions]} :
             K \in SUBSET Ids}

(* ------------------------------------------------------------------ init *)

Init ==
    /\ pmap = EmptyMap
    /\ lock = "free"
    /\ map = EmptyMap
    /\ order = <<>>
    /\ n = 0
    /\ oi = 0
    /\ epc = "detach_wait"
    /\ ipc = "recv"
    /\ sample = <<>>
    /\ alive = TRUE
    /\ published = <<>>
    /\ pairs = <<>>
    /\ latest = EmptyMap
    /\ window = EmptyMap
    /\ received = 0
    /\ dropped = FALSE

(* ------------------------------------------------------------- evaluator *)

evalVars == <<map, order, n, oi, epc, published, pairs>>
ingestVars == <<ipc, sample, received, dropped>>

\* Line 72: pmapc.lock().await returns the guard.
EvalLockDetach ==
    /\ alive /\ epc = "detach_wait" /\ lock = "free"
    /\ lock' = "eval"
    /\ epc' = "detach"
    /\ UNCHANGED <<pmap, map, order, n, oi, published, pairs, latest, window,
                   alive, ingestVars>>

\* EvalDetach as it would be without the block around the swap: the guard
\* m lives on into the pairwise pass.
EvalDetachKeepsGuard ==
    /\ alive /\ epc = "detach"
    /\ map' = pmap
    /\ pmap' = EmptyMap
    /\ order' \in Orders(DOMAIN pmap)
    /\ n' = 0
    /\ oi' = 0
    /\ epc' = "outer"
    /\ UNCHANGED <<lock, published, pairs, latest, window, alive, ingestVars>>

\* Lines 73-76: the table is replaced by an empty one, the guard dropped.
EvalDetach ==
    /\ alive /\ epc = "detach"
    /\ map' = pmap
    /\ pmap' = EmptyMap
    /\ lock' = "free"
    /\ order' \in Orders(DOMAIN pmap)
    /\ n' = 0
    /\ oi' = 0
    /\ epc' = "outer"
    /\ UNCHANGED <<published, pairs, latest, window, alive, ingestVars>>

\* EvalOuter as it would be with n += 1 after the inner loop: skip(n) then
\* skips the elements before the outer one only.
EvalOuterSkipBefore ==
    /\ alive /\ epc = "outer"
    /\ IF n < Len(order)
       THEN /\ n' = n + 1
            /\ oi' = n + 1
            /\ epc' = "inner"
       ELSE /\ epc' = "merge_wait"
            /\ UNCHANGED <<n, oi>>
    /\ UNCHANGED <<pmap, lock, map, order, published, pairs, latest, window,
                   alive, ingestVars>>

\* Lines 77-79: the outer loop takes its next element, n += 1, and the
\* inner loop starts after skip(n) elements; or the outer loop ends.
EvalOuter ==
    /\ alive /\ epc = "outer"
    /\ IF n < Len(order)
       THEN /\ n' = n + 1
            /\ oi' = n' + 1
            /\ epc' = "inner"
       ELSE /\ epc' = "merge_wait"
            /\ UNCHANGED <<n, oi>>
    /\ UNCHANGED <<pmap, lock, map, order, published, pairs, latest, window,
                   alive, ingestVars>>

\* Lines 79-81: the inner loop takes its next element and computes the
\* distance of the pair; or the inner loop ends.
EvalInner ==
    /\ alive /\ epc = "inner"
    /\ IF oi <= Len(order)
       THEN /\ pairs' = Append(pairs, <<cid, oid>>)
            /\ IF cid # oid
               THEN epc' = "minband" /\ oi' = oi
               ELSE epc' = "inner" /\ oi' = oi + 1
       ELSE /\ epc' = "outer"
            /\ UNCHANGED <<oi, pairs>>
    /\ UNCHANGED <<pmap, lock, map, order, n, published, latest, window,
                   alive, ingestVars>>

\* Lines 82-92: the minimum band; its alert, if any, is put and the put
\* returns Ok.
EvalMinBand ==
    /\ alive /\ epc = "minband"
    /\ LET kind == MinBandKind(PairDistance)
       IN  published' =
             IF kind # <<>>
             THEN Append(published,
                         DistanceAlert(cid, oid, PairDistance, kind[1]))
             ELSE published
    /\ epc' = "maxband"
    /\ UNCHANGED <<pmap, lock, map, order, n, oi, pairs, latest, window,
                   alive, ingestVars>>

\* Lines 93-105: the maximum band; its alert, if any, is put and the put
\* returns Ok.  The inner loop then moves on.
EvalMaxBand ==
    /\ alive /\ epc = "maxband"
    /\ LET kind == MaxBandKind(PairDistance)
       IN  published' =
             IF kind # <<>>
             THEN Append(published,
                         DistanceAlert(cid, oid, PairDistance, kind[1]))
             ELSE published
    /\ oi' = oi + 1
    /\ epc' = "inner"
    /\ UNCHANGED <<pmap, lock, map, order, n, pairs, latest, window,
                   alive, ingestVars>>

\* The band the evaluator is at has an alert to put.
PutPending ==
    \/ epc = "minband" /\ MinBandKind(PairDistance) # <<>>
    \/ epc = "maxband" /\ MaxBandKind(PairDistance) # <<>>

\* EvalPutErr as it would be with the put's result discarded (let _ =):
\* the alert is lost and the pass goes on.
EvalPutErrIgnored ==
    /\ alive /\ PutPending
    /\ IF epc = "minband"
       THEN epc' = "maxband" /\ oi' = oi
       ELSE epc' = "inner" /\ oi' = oi + 1
    /\ UNCHANGED <<pmap, lock, map, order, n, published, pairs, latest,
                   window, alive, ingestVars>>

\* Lines 86, 91, 97, 102: the put returns Err and unwrap() panics.  The
\* panic unwinds the spawned task only: its locals (the detached map) are
\* dropped, the runtime keeps the JoinError, main() keeps running.
EvalPutErr ==
    /\ alive /\ PutPending
    /\ epc' = "panicked"
    /\ map' = EmptyMap
    /\ order' = <<>>
    /\ n' = 0
    /\ oi' = 0
    /\ UNCHANGED <<pmap, lock, published, pairs, latest, window, alive,
                   ingestVars>>

\* Line 110: pmapc.lock().await returns the guard.
EvalLockMerge ==
    /\ alive /\ epc = "merge_wait" /\ lock = "free"
    /\ lock' = "eval"
    /\ epc' = "merge"
    /\ UNCHANGED <<pmap, map, order, n, oi, published, pairs, latest, window,
                   alive, ingestVars>>

\* EvalMerge as it would be without the copy loop: the detached map is
\* installed as it is.
EvalMergeNoCopy ==
    /\ alive /\ epc = "merge"
    /\ pmap' = map
    /\ lock' = "free"
    /\ map' = EmptyMap
    /\ order' = <<>>
    /\ n' = 0
    /\ oi' = 0
    /\ epc' = "sleep"
    /\ UNCHANGED <<published, pairs, latest, window, alive, ingestVars>>

\* Lines 111-116: the shared entries are copied into the detached map,
\* which is installed; the guard is dropped and the task sleeps.
EvalMerge ==
    /\ alive /\ epc = "merge"
    /\ pmap' = Merged(map, pmap)
    /\ lock' = "free"
    /\ map' = EmptyMap
    /\ order' = <<>>
    /\ n' = 0
    /\ oi' = 0
    /\ epc' = "sleep"
    /\ UNCHANGED <<published, pairs, latest, window, alive, ingestVars>>

\* Line 116: the sleep ends and the loop starts its next tick.
EvalWake ==
    /\ alive /\ epc = "sleep"
    /\ epc' = "detach_wait"
    /\ published' = <<>>
    /\ pairs' = <<>>
    /\ window' = EmptyMap
    /\ UNCHANGED <<pmap, lock, map, order, n, oi, latest, alive, ingestVars>>

(* ---------------------------------------------------------------- ingest *)

\* Lines 119-120: recv_async().await returns Ok(sample).
IngestRecv ==
    /\ alive /\ ipc = "recv"
    /\ \E payload \in Payloads :
          /\ DecodeOk(payload) => received < MaxMsgs
          /\ sample' = <<payload>>
          /\ received' = IF DecodeOk(payload) THEN received + 1 ELSE received
    /\ ipc' = "decode"
    /\ UNCHANGED <<pmap, lock, latest, window, alive, dropped, evalVars>>

\* IngestRecvClosed as it would be if main did not return after the loop
\* (say it awaited the evaluator's JoinHandle): the evaluator runs on.
IngestRecvClosedKeepsRunning ==
    /\ alive /\ ipc = "recv"
    /\ ipc' = "closed"
    /\ UNCHANGED <<pmap, lock, latest, window, alive, sample, received,
                   dropped, evalVars>>

\* Lines 119, 131-132: recv_async().await returns Err: the loop ends, main
\* returns and the process exits, the evaluator task with it.
IngestRecvClosed ==
    /\ alive /\ ipc = "recv"
    /\ ipc' = "closed"
    /\ alive' = FALSE
    /\ UNCHANGED <<pmap, lock, latest, window, sample, received, dropped,
                   evalVars>>

\* Lines 121-122: the payload decodes; the loop goes for the lock.
IngestDecodeOk ==
    /\ alive /\ ipc = "decode" /\ DecodeOk(sample[1])
    /\ ipc' = "lock"
    /\ UNCHANGED <<pmap, lock, latest, window, alive, sample, received,
                   dropped, evalVars>>

\* IngestDecodeErr as it would be with the decode result unwrapped: the
\* error ends main.
IngestDecodeErrEndsLoop ==
    /\ alive /\ ipc = "decode" /\ ~DecodeOk(sample[1])
    /\ alive' = FALSE
    /\ dropped' = TRUE
    /\ UNCHANGED <<pmap, lock, latest, window, ipc, sample, received,
                   evalVars>>

\* Lines 127-130: the payload does not decode; the error is printed and
\* the iteration ends.
IngestDecodeErr ==
    /\ alive /\ ipc = "decode" /\ ~DecodeOk(sample[1])
    /\ ipc' = "recv"
    /\ sample' = <<>>
    /\ dropped' = TRUE
    /\ UNCHANGED <<pmap, lock, latest, window, alive, received, evalVars>>

\* IngestLock as it would be if the guard were taken without waiting for
\* the Mutex to be free.
IngestLockNoWait ==
    /\ alive /\ ipc = "lock"
    /\ lock' = "ingest"
    /\ ipc' = "insert"
    /\ UNCHANGED <<pmap, latest, window, alive, sample, received, dropped,
                   evalVars>>

\* Line 123: pmap.lock().await returns the guard.
IngestLock ==
    /\ alive /\ ipc = "lock" /\ lock = "free"
    /\ lock' = "ingest"
    /\ ipc' = "insert"
    /\ UNCHANGED <<pmap, latest, window, alive, sample, received, dropped,
                   evalVars>>

\* Lines 124-126, 130: the report is inserted under its id, the guard
\* dropped and the iteration ends.
IngestInsert ==
    /\ alive /\ ipc = "insert"
    /\ LET vi == Decoded(sample[1])
       IN  /\ pmap' = Insert(pmap, vi.id, vi)
           /\ latest' = Noted(latest, vi)
           /\ window' = IF epc \in Detached THEN Noted(window, vi) ELSE window
    /\ lock' = "free"
    /\ ipc' = "recv"
    /\ sample' = <<>>
    /\ UNCHANGED <<alive, received, dropped, evalVars>>

(* --------------------------------------------------------- specification *)

Next ==
    \/ EvalLockDetach \/ EvalDetach \/ EvalOuter \/ EvalInner
    \/ EvalMinBand \/ EvalMaxBand \/ EvalPutErr
    \/ EvalLockMerge \/ EvalMerge \/ EvalWake
    \/ IngestRecv \/ IngestRecvClosed \/ IngestDecodeOk \/ IngestDecodeErr
    \/ IngestLock \/ IngestInsert

Spec == Init /\ [][Next]_vars

\* The scheduling the runtime gives: a task that can run does run, a put
\* and the sleep return, and the Mutex hands the lock to its waiters in
\* turn.  Whether a message arrives, whether the subscription closes and
\* whether a put fails is up to the transport.
Fairness ==
    /\ WF_vars(EvalDetach) /\ WF_vars(EvalOuter) /\ WF_vars(EvalInner)
    /\ WF_vars(EvalMinBand) /\ WF_vars(EvalMaxBand)
    /\ WF_vars(EvalMerge) /\ WF_vars(EvalWake)
    /\ SF_vars(EvalLockDetach) /\ SF_vars(EvalLockMerge)
    /\ WF_vars(IngestDecodeOk) /\ WF_vars(IngestDecodeErr)
    /\ SF_vars(IngestLock) /\ WF_vars(IngestInsert)

SpecFair == Init /\ [][Next]_vars /\ Fairness

\* One evaluator on a table that earlier reports have filled, with no
\* further report arriving: the pairwise pass over every table.
InitTick ==
    /\ pmap \in Tables(TickPositions)
    /\ latest = pmap
    /\ received = Cardinality(DOMAIN pmap)
    /\ lock = "free"
    /\ map = EmptyMap
    /\ order = <<>>
    /\ n = 0
    /\ oi = 0
    /\ epc = "detach_wait"
    /\ ipc = "recv"
    /\ sample = <<>>
    /\ alive = TRUE
    /\ published = <<>>
    /\ pairs = <<>>
    /\ window = EmptyMap
    /\ dropped = FALSE

NextTick ==
    \/ EvalLockDetach \/ EvalDetach \/ EvalOuter \/ EvalInner
    \/ EvalMinBand \/ EvalMaxBand \/ EvalPutErr
    \/ EvalLockMerge \/ EvalMerge \/ EvalWake

SpecTick == InitTick /\ [][NextTick]_vars

(* ---------------------------------------------------------------- claims *)

\* The evaluator is between two ticks: the last merge is complete (or no
\* tick has started) and the next swap has not happened.
BetweenTicks == epc \in {"sleep", "detach_wait", "detach"}

\* Where the evaluator is during its pairwise pass, puts included.
InPass == epc \in {"outer", "inner", "minband", "maxband"}

\* C1: no lost update.  A report inserted while the table was detached is
\* in the shared table, with its value, when the merge of that tick has
\* installed the merged map.
NoLostUpdate ==
    [][(epc = "merge" /\ epc' = "sleep") =>
         \A id \in DOMAIN window :
            id \in DOMAIN pmap' /\ pmap'[id] = window[id]]_vars

\* C1 witness: a tick that evaluated pairs is complete and a report was
\* inserted while its table was detached.
NoLostUpdateWitness ==
    epc = "sleep" /\ window # EmptyMap /\ pairs # <<>>

\* C2, as claimed: the maximum band publishes DangerMax above max_distance,
\* AlertMax above max_distance * 0.75, and nothing otherwise.
MaxBandAsClaimed ==
    [][(epc = "maxband" /\ epc' = "inner") =>
         published' =
           IF PairDistance > max_distance
           THEN Append(published,
                       DistanceAlert(cid, oid, PairDistance, "DangerMax"))
           ELSE IF PairDistance * ScaleUnit > MaxAlertScaled
           THEN Append(published,
                       DistanceAlert(cid, oid, PairDistance, "AlertMax"))
           ELSE published]_vars

\* C3: the minimum band publishes DangerMin up to and including
\* min_distance, AlertMin up to and including min_distance * 1.5, and
\* nothing beyond.
MinBandInclusive ==
    [][(epc = "minband" /\ epc' = "maxband") =>
         published' =
           IF PairDistance <= min_distance
           THEN Append(published,
                       DistanceAlert(cid, oid, PairDistance, "DangerMin"))
           ELSE IF PairDistance * ScaleUnit <= MinAlertScaled
           THEN Append(published,
                       DistanceAlert(cid, oid, PairDistance, "AlertMin"))
           ELSE published]_vars

\* C3 witness: one tick has published a DangerMin alert at exactly
\* min_distance and an AlertMin alert at exactly min_distance * 1.5.
MinBandInclusiveWitness ==
    /\ \E i \in 1..Len(published) :
          /\ published[i].kind = "DangerMin"
          /\ published[i].distance = min_distance
    /\ \E j \in 1..Len(published) :
          /\ published[j].kind = "AlertMin"
          /\ published[j].distance * ScaleUnit = MinAlertScaled

\* The shared table holds, for every id ever inserted, the last report
\* inserted for it, and no other key.
TableIsLatest ==
    /\ DOMAIN pmap = DOMAIN latest
    /\ \A id \in DOMAIN latest : pmap[id] = latest[id]

\* C4, as claimed: the shared table holds the last report of every id in
\* every state, also while the evaluator is between its detach and merge.
TableIsLatestAlways == TableIsLatest

\* C4, amended: the shared table holds the last report of every id
\* whenever the evaluator is between two ticks; while the evaluator owns a
\* detached map, the last report of every id is in the shared table or,
\* failing that, in the detached map, and neither has any other key.
TableIsLatestBetweenTicks ==
    /\ BetweenTicks => TableIsLatest
    /\ epc \in Detached =>
         /\ DOMAIN pmap \cup DOMAIN map = DOMAIN latest
         /\ \A id \in DOMAIN latest :
               IF id \in DOMAIN pmap
               THEN pmap[id] = latest[id]
               ELSE map[id] = latest[id]

\* C4 witness: a tick is complete, two ids are known, and one report came
\* in while the table was detached.
TableIsLatestWitness ==
    /\ epc = "sleep"
    /\ Cardinality(DOMAIN latest) >= 2
    /\ window # EmptyMap

\* C5, as claimed: while the process runs, an id once inserted is a key of
\* the shared table or of a detached map that will be merged back.
NoExpiry ==
    alive =>
      \A id \in DOMAIN latest :
         \/ id \in DOMAIN pmap
         \/ epc \in Detached /\ id \in DOMAIN map

\* C6, as claimed: once a put has failed nothing more is published, no
\* tick is started and no report is inserted into the shared table.
PutFailureStopsAll ==
    [][epc = "panicked" =>
         /\ epc' = "panicked"
         /\ published' = published
         /\ pmap' = pmap]_vars

\* C7: a sample that fails to decode leaves the table and the lock as they
\* are and the loop back at its receive; the lock is only ever requested
\* for a sample that decoded.
DecodeIsolation ==
    /\ [](ipc \in {"lock", "insert"} => DecodeOk(sample[1]))
    /\ [][(/\ ipc = "decode"
           /\ ~DecodeOk(sample[1])
           /\ <<ipc, sample, alive, dropped>>' # <<ipc, sample, alive, dropped>>)
          => /\ pmap' = pmap
             /\ lock' = lock
             /\ latest' = latest
             /\ alive'
             /\ ipc' = "recv"]_vars

\* C7 witness: after a sample failed to decode, a later sample has decoded
\* and the loop holds the lock to insert it.
DecodeIsolationWitness ==
    dropped /\ ipc = "insert" /\ lock = "ingest"

\* The unordered pair the i-th distance computation of the tick was for.
PairSet(i) == {pairs[i][1], pairs[i][2]}

\* C8: no element is paired with itself, no unordered pair is taken twice,
\* and a pass that has run to its end over n elements has taken every
\* unordered pair of distinct keys, n * (n - 1) / 2 in all.
PairEnumeration ==
    /\ \A i \in 1..Len(pairs) : pairs[i][1] # pairs[i][2]
    /\ \A i, j \in 1..Len(pairs) : i # j => PairSet(i) # PairSet(j)
    /\ epc = "merge_wait" =>
         /\ 2 * Len(pairs) = Cardinality(DOMAIN map) * (Cardinality(DOMAIN map) - 1)
         /\ \A a, b \in DOMAIN map :
               a # b => \E i \in 1..Len(pairs) : PairSet(i) = {a, b}

\* C8 witness: a pass over three elements has run to its end.
PairEnumerationWitness ==
    epc = "merge_wait" /\ Cardinality(DOMAIN map) = 3 /\ Len(pairs) = 3

\* C9: the evaluator holds the lock only in its swap and in its merge, the
\* ingest loop only in its insert; so during the pairwise pass the lock is
\* free or held by the ingest loop, and it is not held by a loop waiting
\* to receive.
LockOnlyInCriticalSections ==
    /\ lock = "eval" <=> epc \in {"detach", "merge"}
    /\ lock = "ingest" <=> ipc = "insert"
    /\ InPass => lock \in {"free", "ingest"}
    /\ ipc = "recv" => lock # "ingest"

\* C9 witness: the ingest loop holds the lock while the evaluator is at a
\* put of its pairwise pass.
LockOnlyInCriticalSectionsWitness ==
    epc \in {"minband", "maxband"} /\ PutPending /\ lock = "ingest"

\* C10: an insert sets the entry of its id to the report, leaves every
\* other entry alone, and adds a key only if the id is new; between ticks
\* the table has as many entries as ids were ever inserted.
UpsertReplaces ==
    /\ [](BetweenTicks =>
            Cardinality(DOMAIN pmap) = Cardinality(DOMAIN latest))
    /\ [][(ipc = "insert" /\ ipc' = "recv") =>
            LET vi == Decoded(sample[1])
            IN  /\ pmap'[vi.id] = vi
                /\ \A k \in DOMAIN pmap \ {vi.id} : pmap'[k] = pmap[k]
                /\ vi.id \in DOMAIN pmap => DOMAIN pmap' = DOMAIN pmap
                /\ vi.id \notin DOMAIN pmap =>
                     /\ DOMAIN pmap' = DOMAIN pmap \cup {vi.id}
                     /\ Cardinality(DOMAIN pmap') =
                          Cardinality(DOMAIN pmap) + 1]_vars

\* C10 witness: after a completed tick and three inserted reports the
\* table has a single entry.
UpsertReplacesWitness ==
    /\ epc = "sleep" /\ ipc = "recv"
    /\ received = 3
    /\ Cardinality(DOMAIN pmap) = 1

\* C11: a put that fails ends the tick's dispatch.  A band that has an
\* alert to put and is left without the alert being published leaves the
\* evaluator panicked; the panic keeps the alerts published so far and
\* from then on no alert is published and no pair evaluated.
PutFailureAbortsTick ==
    [][/\ (PutPending /\ epc' # epc /\ published' = published)
            => epc' = "panicked"
       /\ epc' = "panicked"
            => published' = published /\ pairs' = pairs]_vars

\* C11 witness: a put has failed after another alert of the same tick was
\* published.
PutFailureAbortsTickWitness ==
    epc = "panicked" /\ published # <<>>

\* C12: once the subscription has reported closed the process is gone:
\* the ingest loop inserts nothing, the evaluator starts no tick and
\* publishes nothing.
ClosureIsFatal ==
    /\ [](ipc = "closed" => ~alive)
    /\ [][ipc = "closed" =>
            UNCHANGED <<pmap, latest, ipc, epc, published, pairs, lock>>]_vars

\* C12 witness: the subscription closed while the evaluator was in its
\* pairwise pass with an alert to put.
ClosureIsFatalWitness ==
    ipc = "closed" /\ PutPending

\* C13: the two loops are never both in a critical section on the shared
\* table, and every change of the table is made by the loop that holds
\* the lock: the ingest loop's insert, the evaluator's swap and install.
MutualExclusion ==
    /\ [](~(ipc = "insert" /\ epc \in {"detach", "merge"}))
    /\ [][pmap' # pmap =>
            \/ ipc = "insert" /\ ipc' # ipc /\ lock = "ingest"
            \/ epc \in {"detach", "merge"} /\ epc' # epc /\ lock = "eval"]_vars

\* C13 witness: the ingest loop waits for the lock while the evaluator
\* holds it to merge a detached map into a refilled table.
MutualExclusionWitness ==
    /\ ipc = "lock" /\ lock = "eval" /\ epc = "merge"
    /\ pmap # EmptyMap /\ map # EmptyMap

\* The distance of the positions that two keys of the detached map have.
KeyDistance(a, b) == distance_haverside(map[a].position, map[b].position)

\* C14: the distance of a position to itself is 0, and a pass that has
\* run to its end over exactly two entities at one position has published
\* one alert, a DangerMin alert of distance 0, and none of the maximum
\* band.
IdenticalCoordinates ==
    /\ \A a \in DOMAIN map : KeyDistance(a, a) = 0
    /\ (/\ epc = "merge_wait"
        /\ Cardinality(DOMAIN map) = 2
        /\ \A a, b \in DOMAIN map : map[a].position = map[b].position)
       => /\ Len(published) = 1
          /\ published[1].kind = "DangerMin"
          /\ published[1].distance = 0

\* C14 witness: a pass over two entities at one position has run to its
\* end.
IdenticalCoordinatesWitness ==
    /\ epc = "merge_wait"
    /\ Cardinality(DOMAIN map) = 2
    /\ \A a, b \in DOMAIN map : map[a].position = map[b].position
    /\ published # <<>>

MergePrecedence ==
    [][(epc = "merge" /\ epc' = "sleep") =>
         /\ DOMAIN pmap' = DOMAIN pmap \cup DOMAIN map
         /\ \A id \in DOMAIN pmap : pmap'[id] = pmap[id]
         /\ \A id \in DOMAIN map \ DOMAIN pmap : pmap'[id] = map[id]
         /\ \A id \in DOMAIN latest : pmap'[id] = latest[id]]_vars

\* C16 witness: a tick is complete in which an id that took part in the
\* pairwise pass got a new report while the table was detached, and the
\* table holds that report.
MergePrecedenceWitness ==
    /\ epc = "sleep"
    /\ \E id \in DOMAIN window :
          /\ \E i \in 1..Len(pairs) : id \in PairSet(i)
          /\ pmap[id] = window[id]

\* The number of alerts of the tick that name the keys a and b.
AlertsOf(a, b) ==
    Cardinality({i \in 1..Len(published) :
                    {published[i].ida, published[i].idb} = {a, b}})

\* The number of bands a distance crosses a threshold of.
Crossings(distance) ==
    (IF distance * ScaleUnit <= MinAlertScaled THEN 1 ELSE 0)
    + (IF distance * ScaleUnit > MaxAlertScaled THEN 1 ELSE 0)

\* C17: every alert of a tick names two distinct keys of the detached map;
\* a pair never has more alerts than bands it crosses, at most two; and
\* when the pass has run to its end every pair has exactly one alert for
\* each band it crosses, so a pair that crosses none has none and a map of
\* no or one entity yields no alert.
AlertsMatchCrossings ==
    epc \in Detached =>
      /\ \A i \in 1..Len(published) :
            /\ published[i].ida # published[i].idb
            /\ {published[i].ida, published[i].idb} \subseteq DOMAIN map
      /\ \A a, b \in DOMAIN map :
            a # b => /\ AlertsOf(a, b) <= Crossings(KeyDistance(a, b))
                     /\ AlertsOf(a, b) <= 2
      /\ epc = "merge_wait" =>
            /\ \A a, b \in DOMAIN map :
                  a # b => AlertsOf(a, b) = Crossings(KeyDistance(a, b))
            /\ Cardinality(DOMAIN map) <= 1 => published = <<>>

\* C17 witness: a pass over three entities of which a single pair crosses
\* a threshold has run to its end and published one alert.
AlertsMatchCrossingsWitness ==
    /\ epc = "merge_wait"
    /\ Cardinality(DOMAIN map) = 3
    /\ Len(published) = 1
    /\ Cardinality({p \in SUBSET (DOMAIN map) :
                      /\ Cardinality(p) = 2
                      /\ \E a, b \in p :
                            a # b /\ Crossings(KeyDistance(a, b)) > 0}) = 1

\* C19: every alert of a tick names two distinct keys of the detached map
\* and carries the distance of the positions they have in it; a step of
\* the ingest loop changes nothing the pairwise pass reads or has done.
AlertsFromSnapshot ==
    /\ [](epc \in Detached =>
            \A i \in 1..Len(published) :
               /\ published[i].ida # published[i].idb
               /\ published[i].ida \in DOMAIN map
               /\ published[i].idb \in DOMAIN map
               /\ published[i].distance =
                    KeyDistance(published[i].ida, published[i].idb))
    /\ [][ipc' # ipc =>
            UNCHANGED <<map, order, n, oi, pairs, published>>]_vars

\* C19 witness: the pass has published an alert and an id of the detached
\* map has got, since the swap, a report with another position.
AlertsFromSnapshotWitness ==
    /\ InPass
    /\ published # <<>>
    /\ \E id \in DOMAIN window \cap DOMAIN map :
          window[id].position # map[id].position

\* C18: the map a tick detaches holds the last report of every id inserted
\* so far; and, the process running on and no put failing, an id once
\* inserted gets into a detached map at the start of a pairwise pass.
NextTickInclusion ==
    /\ [][(epc = "detach" /\ epc' = "outer") => map' = latest]_vars
    /\ \A id \in Ids :
          (id \in DOMAIN latest)
             ~> \/ epc = "outer" /\ id \in DOMAIN map
                \/ epc = "panicked"
                \/ ~alive

\* C18 witness: a tick has just detached a table of two reports, the
\* last ones of their ids, and left the shared table empty.
NextTickInclusionWitness ==
    /\ epc = "outer" /\ n = 0
    /\ map = latest
    /\ Cardinality(DOMAIN map) = 2
    /\ pmap = EmptyMap

\* C20: a lock that is held can be released at once, by the step of its
\* holder alone; and a well-formed sample that the ingest loop has
\* received is inserted into the shared table, whatever the evaluator does.
IngestNotBlocked ==
    /\ [](alive /\ lock = "eval" => ENABLED (EvalDetach \/ EvalMerge))
    /\ [](alive /\ lock = "ingest" => ENABLED IngestInsert)
    /\ \A p \in WellFormedPayloads :
          (ipc = "decode" /\ sample = <<p>>)
             ~> (ipc = "recv" /\ p.id \in DOMAIN pmap
                              /\ pmap[p.id] = Decoded(p))

\* C20 witness: a report was inserted while the evaluator was in its
\* pairwise pass, which it still is, at a put.
IngestNotBlockedWitness ==
    /\ PutPending
    /\ ipc = "recv"
    /\ window # EmptyMap
    /\ \A id \in DOMAIN window : pmap[id] = window[id]

====
